---- MODULE Spec2Model ----
(***************************************************************************)
(* Istanbul Gasht store admin dashboard (src/app.py, src/models.py,        *)
(* src/init_db.py): the relational store, the catalog and profile          *)
(* handlers with their commits, and the dashboard's KPI aggregation.       *)
(*                                                                         *)
(* Conventions.  A text value (a form field, a stored name) is a sequence  *)
(* of one-character strings.  A calendar date is its day ordinal, so       *)
(* timedelta arithmetic is integer arithmetic.  An Order's total_amount is *)
(* counted in eighths of a currency unit: every such amount is an exact    *)
(* binary float, so SQL's SUM is exact and Python's round(x, 2) is the     *)
(* correctly rounded (ties to even) value, counted in hundredths.  A       *)
(* Product's price is counted in hundredths.                               *)
(***************************************************************************)
EXTENDS Integers, Sequences, FiniteSets, TLC

VARIABLES
    workers,        \* the request workers the deployment serves with
    products,       \* table products: id -> row
    admin_users,    \* table admin_users: id -> row
    orders,         \* table orders: id -> row
    activity_logs,  \* table activity_logs, in insertion order
    uuid,           \* how many uuid4() names were generated
    pc,             \* per worker: where its handler stands
    loc,            \* per worker: the handler's local variables
    last,           \* per worker: the request it served last and how it ended
    pre,            \* per worker: the tables as they were when that request began
    nreq,           \* requests accepted so far
    nmut,           \* committed Product/AdminUser mutations so far, by kind
    nfault,         \* commits the storage layer refused so far
    today,          \* date.today()
    dash            \* what dashboard() handed to its template

vars == <<workers, products, admin_users, orders, activity_logs, uuid, pc, loc,
          last, pre, nreq, nmut, nfault, today, dash>>

----------------------------------------------------------------------------
(* Bounds of the model *)

MaxWorkers == 2
MaxRequests == 2
MaxOrders == 2
MaxBack == 14

----------------------------------------------------------------------------
(* Generic helpers *)

RECURSIVE SumOver(_, _)
SumOver(f, S) ==
    IF S = {} THEN 0
    ELSE LET k == CHOOSE k \in S : TRUE IN f[k] + SumOver(f, S \ {k})

MaxOf(S) == CHOOSE m \in S : \A k \in S : k <= m

----------------------------------------------------------------------------
(* Dashboard: KPIs, weekly growth, 7-day trend (src/app.py 54-127) *)

\* func.coalesce(func.sum(Order.total_amount), 0) ... .scalar() or 0, over the
\* rows `keys` that passed the query's filters
Revenue(tbl, keys) == SumOver([k \in DOMAIN tbl |-> tbl[k].total_amount], keys)

current_start(t) == t - 6
prev_start(t) == current_start(t) - 7
prev_end_overlap(t) == current_start(t)

prev_end(t) == current_start(t) - 1

InCurrent(t, d) == d >= current_start(t) /\ d <= t
InPrevious(t, d) == d >= prev_start(t) /\ d <= prev_end(t)

current_period_revenue(tbl, t) ==
    Revenue(tbl, {k \in DOMAIN tbl : InCurrent(t, tbl[k].order_date)})

previous_period_revenue(tbl, t) ==
    Revenue(tbl, {k \in DOMAIN tbl : InPrevious(t, tbl[k].order_date)})

\* The growth is a float; it is kept as the exact fraction num/den.
GrowthNoBase(cur, prev) ==
    IF prev > 0 THEN [num |-> (cur - prev) * 100, den |-> prev]
    ELSE IF cur > 0 THEN [num |-> 100, den |-> 1]
    ELSE [num |-> 0, den |-> 1]

weekly_growth(cur, prev) ==
    IF prev > 0 THEN [num |-> (cur - prev) * 100, den |-> prev]
    ELSE [num |-> 0, den |-> 1]

\* round(x, 2) of x = e/8: hundredths, ties to even
Round2(e) ==
    LET twice == e * 25
        q == twice \div 2
    IN  IF twice % 2 = 0 THEN q
        ELSE IF q % 2 = 0 THEN q ELSE q + 1

day_revenue(tbl, day) ==
    Revenue(tbl, {k \in DOMAIN tbl : tbl[k].order_date = day})

\* the days of `for i in range(6, -1, -1): day = today - timedelta(days=i)`
TrendDaysNewestFirst(t) == [j \in 1..7 |-> t - (j - 1)]

TrendDays(t) == [j \in 1..7 |-> t - (7 - j)]

\* day.strftime("%b %d") for a day ordinal of a non-leap year
MonthLen == <<31, 28, 31, 30, 31, 30, 31, 31, 30, 31, 30, 31>>
MonthAbbr == <<"Jan", "Feb", "Mar", "Apr", "May", "Jun",
               "Jul", "Aug", "Sep", "Oct", "Nov", "Dec">>
DaysBefore(m) == SumOver(MonthLen, 1..(m - 1))
MonthOf(d) == CHOOSE m \in 1..12 : DaysBefore(m) < d /\ d <= DaysBefore(m) + MonthLen[m]
day_label(d) == <<MonthAbbr[MonthOf(d)], d - DaysBefore(MonthOf(d))>>

\* ActivityLog.query.order_by(ActivityLog.created_at.desc()).limit(10).all()
RecentActivity(logs) ==
    LET n == IF Len(logs) <= 10 THEN Len(logs) ELSE 10
    IN  [j \in 1..n |-> logs[Len(logs) - j + 1]]

DashboardResult(t) ==
    [total_orders |-> Cardinality(DOMAIN orders),
     total_revenue |-> Revenue(orders, DOMAIN orders),
     total_products |-> Cardinality(DOMAIN products),
     weekly_growth |-> weekly_growth(current_period_revenue(orders, t),
                                     previous_period_revenue(orders, t)),
     chart_labels |-> [j \in 1..7 |-> day_label(TrendDays(t)[j])],
     chart_data |-> [j \in 1..7 |-> Round2(day_revenue(orders, TrendDays(t)[j]))],
     recent_activities |-> RecentActivity(activity_logs)]

NoDash == [total_orders |-> -1]

----------------------------------------------------------------------------
(* Form text: str.strip(), float(), int() *)

RECURSIVE LStrip(_)
LStrip(s) == IF s # << >> /\ Head(s) = " " THEN LStrip(Tail(s)) ELSE s

RECURSIVE RStrip(_)
RStrip(s) ==
    IF s # << >> /\ s[Len(s)] = " " THEN RStrip(SubSeq(s, 1, Len(s) - 1)) ELSE s

Strip(s) == RStrip(LStrip(s))

DigitChars == <<"0", "1", "2", "3", "4", "5", "6", "7", "8", "9">>
IsDigit(c) == \E n \in 1..10 : DigitChars[n] = c
DigitVal(c) == (CHOOSE n \in 1..10 : DigitChars[n] = c) - 1
AllDigits(s) == \A k \in 1..Len(s) : IsDigit(s[k])

RECURSIVE DigitsVal(_)
DigitsVal(s) ==
    IF s = << >> THEN 0
    ELSE DigitsVal(SubSeq(s, 1, Len(s) - 1)) * 10 + DigitVal(s[Len(s)])

IsSigned(s) == s # << >> /\ Head(s) \in {"-", "+"}
Unsigned(s) == IF IsSigned(s) THEN Tail(s) ELSE s
SignOf(s) == IF s # << >> /\ Head(s) = "-" THEN -1 ELSE 1

\* int(s): an optional sign and one or more digits
IntParses(s) == Unsigned(s) # << >> /\ AllDigits(Unsigned(s))
IntValue(s) == SignOf(s) * DigitsVal(Unsigned(s))

\* float(s): an optional sign, then digits with an optional point and fraction
\* (exponents, inf and nan need letters the model's forms do not hold)
DotAt(s) == IF \E k \in 1..Len(s) : s[k] = "."
            THEN CHOOSE k \in 1..Len(s) : s[k] = "." ELSE 0
IntPart(s) == IF DotAt(s) = 0 THEN s ELSE SubSeq(s, 1, DotAt(s) - 1)
FracPart(s) == IF DotAt(s) = 0 THEN << >> ELSE SubSeq(s, DotAt(s) + 1, Len(s))
FloatParses(s) ==
    LET u == Unsigned(s) IN
    /\ AllDigits(IntPart(u))
    /\ AllDigits(FracPart(u))
    /\ Len(IntPart(u)) + Len(FracPart(u)) > 0
\* the value in hundredths (the forms hold at most two fraction digits)
FloatValue(s) ==
    LET u == Unsigned(s)
        fr == FracPart(u)
        pad == IF Len(fr) = 0 THEN <<"0", "0">>
               ELSE IF Len(fr) = 1 THEN fr \o <<"0">> ELSE SubSeq(fr, 1, 2)
    IN  SignOf(s) * (DigitsVal(IntPart(u)) * 100 + DigitsVal(pad))

\* request.form.get(k, "").strip() for every field of the product form
Cleaned(f) ==
    [name |-> Strip(f.name), price |-> Strip(f.price), category |-> Strip(f.category),
     stock |-> Strip(f.stock), description |-> Strip(f.description)]

\* `if not name or not price_raw or not category or not stock_raw`
RequiredMissingNoCategory(c) ==
    c.name = << >> \/ c.price = << >> \/ c.stock = << >>

RequiredMissing(c) ==
    c.name = << >> \/ c.price = << >> \/ c.category = << >> \/ c.stock = << >>

\* `try: price = float(price_raw); stock = int(stock_raw)  except ValueError`
NumbersParse(c) == FloatParses(c.price) /\ IntParses(c.stock)

\* the handler's locals once it has read and parsed the form: `missing` and
\* `numeric` are its two validation tests, price and stock the parsed numbers
Parse(f) ==
    LET c == Cleaned(f) IN
    [name |-> c.name, category |-> c.category, description |-> c.description,
     missing |-> RequiredMissing(c),
     numeric |-> NumbersParse(c),
     price |-> IF FloatParses(c.price) THEN FloatValue(c.price) ELSE 0,
     stock |-> IF IntParses(c.stock) THEN IntValue(c.stock) ELSE 0]

----------------------------------------------------------------------------
(* The requests the model submits *)

\* product forms: field |-> the text typed into it
FormShirt == [name |-> <<" ", "a">>, price |-> <<"5">>, category |-> <<"c">>,
              stock |-> <<"4">>, description |-> << >>]
FormHoodie == [name |-> <<"b">>, price |-> <<"2", ".", "5">>, category |-> <<"c", " ">>,
               stock |-> <<"0">>, description |-> <<"d">>]
FormNegPrice == [FormShirt EXCEPT !.price = <<"-", "3">>]
FormNegStock == [FormShirt EXCEPT !.stock = <<"-", "1">>]
FormBlankName == [FormShirt EXCEPT !.name = <<" ">>]
FormNoPrice == [FormShirt EXCEPT !.price = << >>]
FormNoCategory == [FormShirt EXCEPT !.category = << >>]
FormBlankStock == [FormShirt EXCEPT !.stock = <<" ">>]
FormBadPrice == [FormShirt EXCEPT !.price = <<"a">>]
FormBadStock == [FormShirt EXCEPT !.stock = <<"2", ".", "5">>]
NoForm == [name |-> << >>, price |-> << >>, category |-> << >>, stock |-> << >>,
           description |-> << >>]

Forms == {FormShirt, FormHoodie, FormNegPrice, FormNegStock, FormBlankName,
          FormNoPrice, FormNoCategory, FormBlankStock, FormBadPrice, FormBadStock}

\* the uploaded file of a request: none, one that saves, one whose save() raises
Uploads == {"none", "saved", "save_fails"}

\* what a request carries: a GET carries no form, and the handlers read the
\* upload of a POST only once its form passed validation
FormsOf(method) == IF method = "GET" THEN {NoForm} ELSE Forms
Parsed == [f \in Forms \cup {NoForm} |-> Parse(f)]
FormAccepted(f) == ~Parsed[f].missing /\ Parsed[f].numeric
UploadsOf(f) == IF FormAccepted(f) THEN Uploads ELSE {"none"}

\* profile forms
ProfileForms == {[name |-> <<"n", " ">>, email |-> <<"e">>],
                 [name |-> <<" ">>, email |-> <<"e">>],
                 [name |-> <<"n">>, email |-> << >>]}

NoProfileForm == [name |-> << >>, email |-> << >>]
ProfileFormsOf(method) == IF method = "GET" THEN {NoProfileForm} ELSE ProfileForms
AvatarsOf(f) ==
    IF Strip(f.name) = << >> \/ Strip(f.email) = << >> THEN {"none"} ELSE Uploads

\* the ids a request may name: every row there is, and one past them
RequestIds == 1..(Cardinality(DOMAIN products) + 1)

----------------------------------------------------------------------------
(* The store (src/models.py) *)

NoFile == << >>

\* SQLite's rowid for an INTEGER PRIMARY KEY without AUTOINCREMENT
NewId(tbl) == IF DOMAIN tbl = {} THEN 1 ELSE MaxOf(DOMAIN tbl) + 1

EmptyTable == << >>

Insert(tbl, id, row) == [k \in DOMAIN tbl \cup {id} |-> IF k = id THEN row ELSE tbl[k]]

Remove(tbl, id) == [k \in DOMAIN tbl \ {id} |-> tbl[k]]

\* AdminUser(id=1, name="Admin", email="admin@example.com")
PlaceholderAdmin ==
    [name |-> <<"A", "d", "m", "i", "n">>,
     email |-> <<"a", "d", "m", "i", "n", "@", "e", "x", "a", "m", "p", "l", "e",
                 ".", "c", "o", "m">>,
     avatar_filename |-> NoFile]

\* ActivityLog(action_type=..., description=...): the description's variable
\* part is the product's name
LogEntry(action_type, name) == [action_type |-> action_type, name |-> name]

Snapshot == [products |-> products, admin_users |-> admin_users,
             orders |-> orders, activity_logs |-> activity_logs, nfault |-> nfault]

----------------------------------------------------------------------------
(* Handler building blocks *)

NoLocals == [id |-> 0, name |-> << >>]

NoRequest == [op |-> "none", method |-> "GET", id |-> 0, form |-> NoForm,
              upload |-> "none", result |-> "none"]

Request(op, method, id, form, upload, result) ==
    [op |-> op, method |-> method, id |-> id, form |-> form, upload |-> upload,
     result |-> result]

\* a request is accepted by an idle worker
Accept(w) ==
    /\ w \in workers
    /\ pc[w] = "idle"
    /\ nreq < MaxRequests
    /\ nreq' = nreq + 1
    /\ pre' = [pre EXCEPT ![w] = Snapshot]

\* the handler returns (or raises into Flask's 500 handler)
Finish(w, req) ==
    /\ pc' = [pc EXCEPT ![w] = "idle"]
    /\ loc' = [loc EXCEPT ![w] = NoLocals]
    /\ last' = [last EXCEPT ![w] = req]

\* the handler goes on to its next commit
Goto(w, label, locals, req) ==
    /\ pc' = [pc EXCEPT ![w] = label]
    /\ loc' = [loc EXCEPT ![w] = locals]
    /\ last' = [last EXCEPT ![w] = req]

\* uuid4().hex + ext, generated whenever a file came with the request
UuidAfter(upload) == IF upload = "none" THEN uuid ELSE uuid + 1

\* the row create_product builds from the parsed form
NewProduct(c, upload) ==
    [name |-> c.name, price |-> c.price, category |-> c.category,
     stock |-> c.stock, description |-> c.description,
     image_filename |-> IF upload = "saved" THEN <<uuid + 1>> ELSE NoFile]

EditedProductDropsImage(row, c, upload) ==
    [name |-> c.name, price |-> c.price, category |-> c.category,
     stock |-> c.stock, description |-> c.description,
     image_filename |-> IF upload = "saved" THEN <<uuid + 1>> ELSE NoFile]

\* the row edit_product leaves after its assignments
EditedProduct(row, c, upload) ==
    [name |-> c.name, price |-> c.price, category |-> c.category,
     stock |-> c.stock, description |-> c.description,
     image_filename |-> IF upload = "saved" THEN <<uuid + 1>> ELSE row.image_filename]

DetachCascade(tbl, id) ==
    [k \in {j \in DOMAIN tbl : tbl[j].product_id # id} |-> tbl[k]]

\* db.session.delete(product): the backref `orders` has no cascade, so the
\* flush sets product_id to NULL (0) on the Orders of the product
Detach(tbl, id) ==
    [k \in DOMAIN tbl |-> IF tbl[k].product_id = id
                          THEN [tbl[k] EXCEPT !.product_id = 0] ELSE tbl[k]]

\* log_activity: add the entry and commit; `ok` is whether the commit went through
LogCommitted(ok, entry) == IF ok THEN Append(activity_logs, entry) ELSE activity_logs

\* the kinds of mutation: the four that log_activity names, and the lazy seed
Kinds == {"product_created", "product_edited", "product_deleted", "profile_updated",
          "admin_seeded"}
Committed(kind) == nmut' = [nmut EXCEPT ![kind] = @ + 1]

\* the outcome of a commit: it goes through, or the storage layer raises
Fault(ok) == nfault' = IF ok THEN nfault ELSE nfault + 1

UnchangedAnalytics == UNCHANGED <<workers, today, dash>>

----------------------------------------------------------------------------
(* Product CRUD (src/app.py 136-258) *)

\* create_product up to its own commit
create_product(w) ==
    \E method \in {"GET", "POST"}, ok \in BOOLEAN :
      \E f \in FormsOf(method) : \E up \in UploadsOf(f) :
        LET c == Parsed[f]
            req(result) == Request("create", method, 0, f, up, result)
        IN
        /\ Accept(w)
        /\ UNCHANGED <<admin_users, orders, activity_logs>>
        /\ UnchangedAnalytics
        /\ IF method = "GET"
           THEN /\ Finish(w, req("rendered"))
                /\ UNCHANGED <<products, uuid, nmut, nfault>>
           ELSE IF c.missing \/ ~c.numeric
           THEN /\ Finish(w, req("validation"))
                /\ UNCHANGED <<products, uuid, nmut, nfault>>
           ELSE /\ uuid' = UuidAfter(up)
                /\ Fault(ok)
                /\ IF ok
                   THEN /\ products' = Insert(products, NewId(products), NewProduct(c, up))
                        /\ Committed("product_created")
                        /\ Goto(w, "create_log",
                                [id |-> NewId(products), name |-> c.name], req("pending"))
                   ELSE /\ UNCHANGED <<products, nmut>>
                        /\ Finish(w, req("error500"))

\* app.log_activity("product_created", ...) and the handler's return
create_log(w) ==
    \E ok \in BOOLEAN :
        /\ w \in workers
        /\ pc[w] = "create_log"
        /\ activity_logs' = LogCommitted(ok, LogEntry("product_created", loc[w].name))
        /\ Finish(w, [last[w] EXCEPT !.result = IF ok THEN "success" ELSE "error500"])
        /\ Fault(ok)
        /\ UNCHANGED <<products, admin_users, orders, uuid, pre, nreq, nmut>>
        /\ UnchangedAnalytics

\* edit_product up to its own commit
edit_product(w) ==
    \E id \in RequestIds, method \in {"GET", "POST"}, ok \in BOOLEAN :
      \E f \in FormsOf(IF id \in DOMAIN products THEN method ELSE "GET") :
        \E up \in UploadsOf(f) :
        LET c == Parsed[f]
            req(result) == Request("edit", method, id, f, up, result)
        IN
        /\ Accept(w)
        /\ UNCHANGED <<admin_users, orders, activity_logs>>
        /\ UnchangedAnalytics
        /\ IF id \notin DOMAIN products
           THEN /\ Finish(w, req("notfound"))
                /\ UNCHANGED <<products, uuid, nmut, nfault>>
           ELSE IF method = "GET"
           THEN /\ Finish(w, req("rendered"))
                /\ UNCHANGED <<products, uuid, nmut, nfault>>
           ELSE IF c.missing \/ ~c.numeric
           THEN /\ Finish(w, req("validation"))
                /\ UNCHANGED <<products, uuid, nmut, nfault>>
           ELSE /\ uuid' = UuidAfter(up)
                /\ Fault(ok)
                /\ IF ok
                   THEN /\ products' = [products EXCEPT
                                           ![id] = EditedProduct(products[id], c, up)]
                        /\ Committed("product_edited")
                        /\ Goto(w, "edit_log", [id |-> id, name |-> c.name],
                                req("pending"))
                   ELSE /\ UNCHANGED <<products, nmut>>
                        /\ Finish(w, req("error500"))

\* app.log_activity("product_edited", ...) and the handler's return
edit_log(w) ==
    \E ok \in BOOLEAN :
        /\ w \in workers
        /\ pc[w] = "edit_log"
        /\ activity_logs' = LogCommitted(ok, LogEntry("product_edited", loc[w].name))
        /\ Finish(w, [last[w] EXCEPT !.result = IF ok THEN "success" ELSE "error500"])
        /\ Fault(ok)
        /\ UNCHANGED <<products, admin_users, orders, uuid, pre, nreq, nmut>>
        /\ UnchangedAnalytics

\* delete_product up to its own commit; a failed commit is caught and rolled back
delete_product(w) ==
    \E id \in RequestIds, ok \in BOOLEAN :
        LET req(result) == Request("delete", "POST", id, NoForm, "none", result) IN
        /\ Accept(w)
        /\ UNCHANGED <<admin_users, activity_logs, uuid>>
        /\ UnchangedAnalytics
        /\ IF id \notin DOMAIN products
           THEN /\ Finish(w, req("notfound"))
                /\ UNCHANGED <<products, orders, nmut, nfault>>
           ELSE IF ok
           THEN /\ products' = Remove(products, id)
                /\ orders' = Detach(orders, id)
                /\ Committed("product_deleted")
                /\ UNCHANGED nfault
                /\ Goto(w, "delete_log", [id |-> id, name |-> products[id].name],
                        req("pending"))
           ELSE /\ UNCHANGED <<products, orders, nmut>>
                /\ nfault' = nfault + 1
                /\ Finish(w, req("storage_error"))

\* app.log_activity("product_deleted", ...) inside the same try: a failed log
\* commit is caught, db.session.rollback() undoes the log entry alone
delete_log(w) ==
    \E ok \in BOOLEAN :
        /\ w \in workers
        /\ pc[w] = "delete_log"
        /\ activity_logs' = LogCommitted(ok, LogEntry("product_deleted", loc[w].name))
        /\ Finish(w, [last[w] EXCEPT
                         !.result = IF ok THEN "success" ELSE "storage_error"])
        /\ Fault(ok)
        /\ UNCHANGED <<products, admin_users, orders, uuid, pre, nreq, nmut>>
        /\ UnchangedAnalytics

----------------------------------------------------------------------------
(* Admin profile (src/app.py 262-304) *)

\* admin = AdminUser.query.get(1)
edit_profile(w) ==
    /\ Accept(w)
    /\ Goto(w, IF 1 \in DOMAIN admin_users THEN "profile_body" ELSE "profile_seed",
            NoLocals, Request("profile", "GET", 1, NoForm, "none", "pending"))
    /\ UNCHANGED <<products, admin_users, orders, activity_logs, uuid, nmut, nfault>>
    /\ UnchangedAnalytics

\* `if not admin:` add AdminUser(id=1, ...) and commit; the primary key rejects
\* a second row with id 1
profile_seed(w) ==
    \E ok \in BOOLEAN :
        /\ w \in workers
        /\ pc[w] = "profile_seed"
        /\ IF 1 \in DOMAIN admin_users
           THEN \* IntegrityError: UNIQUE constraint failed: admin_users.id
                /\ UNCHANGED <<admin_users, nmut, nfault>>
                /\ Finish(w, [last[w] EXCEPT !.result = "error500"])
           ELSE IF ok
           THEN /\ admin_users' = Insert(admin_users, 1, PlaceholderAdmin)
                /\ Committed("admin_seeded")
                /\ UNCHANGED nfault
                /\ Goto(w, "profile_body", NoLocals, last[w])
           ELSE /\ UNCHANGED <<admin_users, nmut>>
                /\ nfault' = nfault + 1
                /\ Finish(w, [last[w] EXCEPT !.result = "error500"])
        /\ UNCHANGED <<products, orders, activity_logs, uuid, pre, nreq>>
        /\ UnchangedAnalytics

\* the rest of edit_profile up to its own commit
profile_body(w) ==
    \E method \in {"GET", "POST"}, ok \in BOOLEAN :
      \E f \in ProfileFormsOf(method) : \E up \in AvatarsOf(f) :
        LET name == Strip(f.name)
            email == Strip(f.email)
            req(result) == Request("profile", method, 1, f, up, result)
        IN
        /\ w \in workers
        /\ pc[w] = "profile_body"
        /\ UNCHANGED <<products, orders, activity_logs, pre, nreq>>
        /\ UnchangedAnalytics
        /\ IF method = "GET"
           THEN /\ Finish(w, req("rendered"))
                /\ UNCHANGED <<admin_users, uuid, nmut, nfault>>
           ELSE IF name = << >> \/ email = << >>
           THEN /\ Finish(w, req("validation"))
                /\ UNCHANGED <<admin_users, uuid, nmut, nfault>>
           ELSE /\ uuid' = UuidAfter(up)
                /\ Fault(ok)
                /\ IF ok
                   THEN /\ admin_users' =
                              [admin_users EXCEPT ![1] =
                                  [name |-> name, email |-> email,
                                   avatar_filename |->
                                       IF up = "saved" THEN <<"avatar_", uuid + 1>>
                                       ELSE admin_users[1].avatar_filename]]
                        /\ Committed("profile_updated")
                        /\ Goto(w, "profile_log", NoLocals, req("pending"))
                   ELSE /\ UNCHANGED <<admin_users, nmut>>
                        /\ Finish(w, req("error500"))

\* app.log_activity("profile_updated", ...) and the handler's return
profile_log(w) ==
    \E ok \in BOOLEAN :
        /\ w \in workers
        /\ pc[w] = "profile_log"
        /\ activity_logs' = LogCommitted(ok, LogEntry("profile_updated", << >>))
        /\ Finish(w, [last[w] EXCEPT !.result = IF ok THEN "success" ELSE "error500"])
        /\ Fault(ok)
        /\ UNCHANGED <<products, admin_users, orders, uuid, pre, nreq, nmut>>
        /\ UnchangedAnalytics

----------------------------------------------------------------------------
(* The dashboard request (src/app.py 54-127): a read of the store *)

dashboard ==
    /\ dash' = DashboardResult(today)
    /\ UNCHANGED <<workers, products, admin_users, orders, activity_logs, uuid, pc,
                   loc, last, pre, nreq, nmut, nfault, today>>

----------------------------------------------------------------------------
(* Specifications *)

Workers == 1..MaxWorkers

EmptySnapshot == [products |-> EmptyTable, admin_users |-> EmptyTable,
                  orders |-> EmptyTable, activity_logs |-> << >>, nfault |-> 0]

\* the tables right after db.create_all(), nothing seeded
EmptyStore ==
    /\ products = EmptyTable
    /\ admin_users = EmptyTable
    /\ orders = EmptyTable
    /\ activity_logs = << >>

Idle ==
    /\ uuid = 0
    /\ pc = [w \in Workers |-> "idle"]
    /\ loc = [w \in Workers |-> NoLocals]
    /\ last = [w \in Workers |-> NoRequest]
    /\ nreq = 0
    /\ nmut = [k \in Kinds |-> 0]
    /\ nfault = 0
    /\ dash = NoDash

\* one worker serving one request at a time
Init ==
    /\ workers = {1}
    /\ EmptyStore
    /\ pre = [w \in Workers |-> EmptySnapshot]
    /\ today = 60
    /\ Idle

Next ==
    \E w \in Workers :
        \/ create_product(w)
        \/ create_log(w)
        \/ edit_product(w)
        \/ edit_log(w)
        \/ delete_product(w)
        \/ delete_log(w)
        \/ edit_profile(w)
        \/ profile_seed(w)
        \/ profile_body(w)
        \/ profile_log(w)

Spec == Init /\ [][Next]_vars

\* several workers serving profile requests at once
InitRace ==
    /\ workers = Workers
    /\ EmptyStore
    /\ pre = [w \in Workers |-> EmptySnapshot]
    /\ today = 60
    /\ Idle

NextRace ==
    \E w \in Workers :
        \/ edit_profile(w)
        \/ profile_seed(w)
        \/ profile_body(w)
        \/ profile_log(w)

SpecRace == InitRace /\ [][NextRace]_vars

\* the dashboard over a store holding any few Orders
OrderDays(t) == (t - MaxBack)..(t + 1)
Amounts == {0, 3, 400, 800}
Todays == {60, 65}
OrderRows(t) == [product_id : {0}, quantity : {1}, total_amount : Amounts,
                 order_date : OrderDays(t)]

\* the rows are inserted by date, and by amount within a date: the aggregates
\* do not depend on the order of insertion
InsertedInOrder(a, b) ==
    \/ a.order_date < b.order_date
    \/ a.order_date = b.order_date /\ a.total_amount <= b.total_amount

InitDash ==
    /\ workers = {1}
    /\ products = EmptyTable
    /\ admin_users = EmptyTable
    /\ activity_logs = << >>
    /\ today \in Todays
    /\ \E n \in 0..MaxOrders : orders \in [1..n -> OrderRows(today)]
    /\ \A k \in DOMAIN orders \ {1} : InsertedInOrder(orders[k - 1], orders[k])
    /\ pre = [w \in Workers |-> EmptySnapshot]
    /\ Idle

NextDash == dashboard

SpecDash == InitDash /\ [][NextDash]_vars

\* the catalog over a store that holds a Product and two Orders, one in each
\* window of the dashboard: one references the Product, one nothing (NULL is 0)
InitOrders ==
    /\ workers = {1}
    /\ today = 60
    /\ Idle
    /\ products = Insert(EmptyTable, 1, NewProduct(Parsed[FormShirt], "none"))
    /\ admin_users = EmptyTable
    /\ activity_logs = << >>
    /\ orders = <<[product_id |-> 1, quantity |-> 2, total_amount |-> 800,
                   order_date |-> today],
                  [product_id |-> 0, quantity |-> 1, total_amount |-> 400,
                   order_date |-> today - 7]>>
    /\ pre = [w \in Workers |-> EmptySnapshot]

NextOrders ==
    \E w \in Workers :
        \/ create_product(w)
        \/ create_log(w)
        \/ edit_product(w)
        \/ edit_log(w)
        \/ delete_product(w)
        \/ delete_log(w)

SpecOrders == InitOrders /\ [][NextOrders]_vars

----------------------------------------------------------------------------
(* Vocabulary of the properties *)

AllIdle == \A w \in workers : pc[w] = "idle"

CountLogs(kind) ==
    Cardinality({k \in 1..Len(activity_logs) : activity_logs[k].action_type = kind})

\* the tables a request found are the tables it left
StoreAsBefore(w) ==
    /\ products = pre[w].products
    /\ activity_logs = pre[w].activity_logs

\* revenue of the Orders dated between hi and lo days before today
WindowRevenue(lo, hi) ==
    SumOver([k \in DOMAIN orders |-> orders[k].total_amount],
            {k \in DOMAIN orders : today - orders[k].order_date \in lo..hi})

\* the forms a handler must reject, and what the others must store
RejectedForms == {FormBlankName, FormNoPrice, FormNoCategory, FormBlankStock,
                  FormBadPrice, FormBadStock}
Expected(f) ==
    CASE f = FormShirt ->
           [name |-> <<"a">>, price |-> 500, category |-> <<"c">>, stock |-> 4,
            description |-> << >>]
      [] f = FormHoodie ->
           [name |-> <<"b">>, price |-> 250, category |-> <<"c">>, stock |-> 0,
            description |-> <<"d">>]
      [] f = FormNegPrice ->
           [name |-> <<"a">>, price |-> -300, category |-> <<"c">>, stock |-> 4,
            description |-> << >>]
      [] f = FormNegStock ->
           [name |-> <<"a">>, price |-> 500, category |-> <<"c">>, stock |-> -1,
            description |-> << >>]

----------------------------------------------------------------------------
(* Properties *)

\* C1: once every request has returned, and no commit was refused, the
\* ActivityLog holds exactly one entry per committed mutation of a Product or
\* of the AdminUser row, the lazy creation of the AdminUser row included.
C1_OneLogPerMutation ==
    (AllIdle /\ nfault = 0) => Len(activity_logs) = SumOver(nmut, Kinds)

\* C2: once every request has returned, each committed Product create, Product
\* update, Product delete and Profile update has its ActivityLog entry: none of
\* them is durable with its entry absent, also after a refused log commit.
C2_MutationAndLogAtomic ==
    AllIdle => \A kind \in Kinds \ {"admin_seeded"} : CountLogs(kind) = nmut[kind]

\* C3: a Delete of an existing Product that signals the storage-error outcome
\* leaves the store as it was before the call: the Product is still there and
\* no ActivityLog entry was added.
C3_FailedDeleteRestoresStore ==
    \A w \in workers :
        (pc[w] = "idle" /\ last[w].op = "delete" /\ last[w].result = "storage_error")
            => StoreAsBefore(w)

\* C4: a Create or Update whose name, price, category or stock is missing or
\* blank, or whose price or stock is no number, ends in the validation error;
\* an Update or Delete of an id that names no Product ends in not-found; and a
\* Catalog request that ends in either leaves the Product table and the
\* ActivityLog as they were.
C4_RejectedRequestsChangeNothing ==
    \A w \in workers :
        pc[w] = "idle" =>
            LET r == last[w] IN
            /\ ( /\ r.op \in {"create", "edit"}
                 /\ r.method = "POST"
                 /\ r.form \in RejectedForms
                 /\ r.op = "edit" => r.id \in DOMAIN pre[w].products )
               => r.result = "validation"
            /\ (r.op \in {"edit", "delete"} /\ r.id \notin DOMAIN pre[w].products)
               => r.result = "notfound"
            /\ ( /\ r.op \in {"create", "edit", "delete"}
                 /\ r.result \in {"validation", "notfound"} )
               => StoreAsBefore(w)

\* C4, its case: an Update of an existing Product with a non-numeric price was
\* rejected and changed nothing.
C4_Witness ==
    \E w \in workers :
        /\ pc[w] = "idle"
        /\ last[w].op = "edit"
        /\ last[w].form = FormBadPrice
        /\ last[w].id \in DOMAIN pre[w].products
        /\ last[w].result = "validation"
        /\ StoreAsBefore(w)

\* C5: every persisted Product has price >= 0, stock >= 0, a non-empty name
\* and a non-empty category.
C5_PersistedProductsWellFormed ==
    \A id \in DOMAIN products :
        /\ products[id].price >= 0
        /\ products[id].stock >= 0
        /\ products[id].name # << >>
        /\ products[id].category # << >>

\* C6: with no commit refused by the storage layer, no profile access ends in
\* a user-visible error, however the first accesses interleave.
C6_NoProfileAccessFails ==
    nfault = 0 =>
        \A w \in workers : ~(last[w].op = "profile" /\ last[w].result = "error500")

\* C7: when the revenue of the previous window (today-13 .. today-7) is
\* exactly 0, WeeklyGrowth is exactly 0 and is a number, whatever the revenue
\* of the current window.
C7_ZeroBaseGrowthIsZero ==
    (dash # NoDash /\ WindowRevenue(7, 13) = 0)
        => dash.weekly_growth.num = 0 /\ dash.weekly_growth.den # 0

\* C7, its case: nothing was sold in the previous window and 100 or more in
\* the current one.
C7_Witness ==
    /\ dash # NoDash
    /\ WindowRevenue(7, 13) = 0
    /\ WindowRevenue(0, 6) >= 800
    /\ dash.weekly_growth.num = 0

\* C8: the current window is exactly the order dates today-6 .. today and the
\* previous window exactly today-13 .. today-7, so an Order dated in
\* today-13 .. today counts in exactly one of them and any other Order in
\* none; with a nonzero previous revenue the growth is
\* (current - previous) / previous * 100.
C8_AdjacentWindows ==
    dash # NoDash =>
        LET cur == WindowRevenue(0, 6)
            prev == WindowRevenue(7, 13)
            g == dash.weekly_growth
        IN
        /\ current_period_revenue(orders, today) = cur
        /\ previous_period_revenue(orders, today) = prev
        /\ prev # 0 => (g.den # 0 /\ g.num * prev = (cur - prev) * 100 * g.den)

\* C8, its case: current revenue 100 and previous revenue 50 give a growth of 100.
C8_Witness ==
    /\ dash # NoDash
    /\ WindowRevenue(0, 6) = 800
    /\ WindowRevenue(7, 13) = 400
    /\ dash.weekly_growth.num = 100 * dash.weekly_growth.den

\* C9 as stated: SevenDayTrend has exactly 7 entries, and the i-th entry's
\* revenue is the sum of total_amount over the Orders dated exactly that day.
C9_TrendEntryIsDaySum ==
    dash # NoDash =>
        /\ DOMAIN dash.chart_data = 1..7
        /\ \A j \in 1..7 : dash.chart_data[j] * 8 = WindowRevenue(7 - j, 7 - j) * 100

\* C9 as amended: SevenDayTrend has exactly 7 entries, one per calendar day
\* from today-6 to today, oldest first; the i-th entry's revenue is the sum of
\* total_amount over the Orders dated exactly that day, rounded to 2 decimal
\* places, and a day with no orders has an entry with revenue 0.
C9_TrendEntryIsRoundedDaySum ==
    dash # NoDash =>
        /\ DOMAIN dash.chart_data = 1..7
        /\ DOMAIN dash.chart_labels = 1..7
        /\ \A j \in 1..7 :
               LET sum == WindowRevenue(7 - j, 7 - j) IN
               /\ dash.chart_data[j] * 8 - sum * 100 \in -4..4
               /\ sum = 0 => dash.chart_data[j] = 0
        /\ today = 60 => /\ dash.chart_labels[1] = <<"Feb", 23>>
                         /\ dash.chart_labels[6] = <<"Feb", 28>>
                         /\ dash.chart_labels[7] = <<"Mar", 1>>

\* C9, its case: a day with no orders has the entry 0, and a day whose orders
\* sum to 0.375 has the entry 0.38.
C9_Witness ==
    /\ dash # NoDash
    /\ \E j \in 1..7 :
           /\ \A k \in DOMAIN orders : orders[k].order_date # today - 7 + j
           /\ dash.chart_data[j] = 0
    /\ \E j \in 1..7 : WindowRevenue(7 - j, 7 - j) = 3 /\ dash.chart_data[j] = 38

\* C10: an Update of an existing Product with an acceptable form fails only
\* when the storage layer refuses a commit; when it succeeds, the Product holds
\* the supplied name, price, category, stock and description, its image
\* reference is a new one if an image was supplied and stored and the prior
\* one otherwise (no image, or an image whose storing failed), and one
\* "product edited" entry was logged.
C10_UpdateOverwritesScalarsKeepsImage ==
    \A w \in workers :
        ( /\ pc[w] = "idle"
          /\ last[w].op = "edit"
          /\ last[w].method = "POST"
          /\ last[w].id \in DOMAIN pre[w].products
          /\ last[w].form \notin RejectedForms )
        => LET r == last[w]
               old == pre[w].products[r.id]
               e == Expected(r.form)
           IN
           /\ r.result \in {"success", "error500"}
           /\ r.result = "error500" => nfault > pre[w].nfault
           /\ r.result = "success" =>
                 /\ r.id \in DOMAIN products
                 /\ products[r.id].name = e.name
                 /\ products[r.id].price = e.price
                 /\ products[r.id].category = e.category
                 /\ products[r.id].stock = e.stock
                 /\ products[r.id].description = e.description
                 /\ IF r.upload = "saved"
                    THEN products[r.id].image_filename \notin {NoFile, old.image_filename}
                    ELSE products[r.id].image_filename = old.image_filename
                 /\ activity_logs =
                        Append(pre[w].activity_logs, LogEntry("product_edited", e.name))

\* C10, its case: a Product that had an image was updated with an image whose
\* storing failed; the update succeeded, changed the name and kept the image.
C10_Witness ==
    \E w \in workers :
        /\ pc[w] = "idle"
        /\ last[w].op = "edit"
        /\ last[w].result = "success"
        /\ last[w].upload = "save_fails"
        /\ last[w].id \in DOMAIN pre[w].products
        /\ pre[w].products[last[w].id].image_filename # NoFile
        /\ products[last[w].id].image_filename
               = pre[w].products[last[w].id].image_filename
        /\ products[last[w].id].name # pre[w].products[last[w].id].name

\* what an Order row keeps of itself, whatever becomes of its Product
OrderFacts ==
    [k \in DOMAIN orders |->
        [total_amount |-> orders[k].total_amount, quantity |-> orders[k].quantity,
         order_date |-> orders[k].order_date]]

\* TotalOrderCount, TotalRevenue, WeeklyGrowth and SevenDayTrend for today
OrderKpis ==
    LET d == DashboardResult(today) IN
    <<d.total_orders, d.total_revenue, d.weekly_growth, d.chart_labels, d.chart_data>>

\* C11: every step of a Catalog Create, Update or Delete leaves every Order
\* row in place with its total_amount, quantity and order_date, and leaves
\* TotalOrderCount, TotalRevenue, WeeklyGrowth and SevenDayTrend for today as
\* they were; a Delete of a Product, referenced by Orders or not, fails only
\* when the storage layer refuses the commit, and when its commit goes through
\* the Product is gone and exactly the Orders that referenced it are detached.
C11_OrdersOutliveProducts ==
    [][ /\ orders' = orders \/ OrderFacts' = OrderFacts
        /\ <<orders, today>>' = <<orders, today>> \/ OrderKpis' = OrderKpis
        /\ \A w \in workers :
               /\ (pc[w] = "idle" /\ pc'[w] = "delete_log") =>
                      /\ loc'[w].id \in DOMAIN products
                      /\ loc'[w].id \notin DOMAIN products'
                      /\ \A k \in DOMAIN orders :
                             orders'[k].product_id =
                                 IF orders[k].product_id = loc'[w].id
                                 THEN 0 ELSE orders[k].product_id
               /\ ( /\ pc[w] = "idle"
                    /\ nreq' # nreq
                    /\ last'[w].op = "delete"
                    /\ last'[w].result = "storage_error" )
                  => nfault' = nfault + 1 ]_vars

\* C11, its case: a Product that an Order referenced was deleted; the Order is
\* still there, detached, with its amount, and the revenue is still 150.
C11_Witness ==
    \E w \in workers :
        /\ pc[w] = "idle"
        /\ last[w].op = "delete"
        /\ last[w].result = "success"
        /\ last[w].id \notin DOMAIN products
        /\ \E k \in DOMAIN pre[w].orders :
               /\ pre[w].orders[k].product_id = last[w].id
               /\ k \in DOMAIN orders
               /\ orders[k].product_id = 0
               /\ orders[k].total_amount = pre[w].orders[k].total_amount
        /\ DashboardResult(today).total_orders = 2
        /\ DashboardResult(today).total_revenue = 1200

====
